---- MODULE Spec2Model ----
(***************************************************************************)
(* ch: hexadecimal / ascii dump of a file (src/index.js).                  *)
(*                                                                         *)
(* The model follows one run of the program: the main script (HexaFile     *)
(* construction, openFile, print), the continuations printLine schedules   *)
(* with setImmediate, the SIGPIPE / EPIPE handler and the ways the process *)
(* ends.  Text is modelled as sequences of character codes (46 is ".",     *)
(* 32 is " ", 48.."9" digits, 97.. lowercase letters).                     *)
(***************************************************************************)
EXTENDS Integers, Sequences, FiniteSets

\* ------------------------------------------------------------------ bounds

\* regular files of the small specification have 0..MaxSize bytes
MaxSize == 50
\* a start offset past the end of file is the size plus 0 or MaxBeyond
MaxBeyond == 50
\* file contents are drawn from the patterns 0..MaxSeed
MaxSeed == 1
\* files of the large specification end MaxTail bytes after a line or a buffer
MaxTail == 8
\* a mid-file start offset of the large specification
BigStart == 5

\* ------------------------------------------------------- program constants

LINE_WIDTH == 192 \div 8

BUFFER_LENGTH == 512 * 1024

\* value standing for JavaScript's undefined where a byte is expected:
\* like undefined it is neither > -1 nor >= 32
UNDEFINED == -2

\* end-of-file value returned by readByteFromFile
EOF == -1

BlockSizes == {8, 16, 32, 64}

\* ------------------------------------------------------------------- state

VARIABLES
    \* the environment: the path given, the file behind it, the platform
    fileKind,       \* "missing", "directory" or "file"
    fileSize,       \* size in bytes of the file
    fileSeed,       \* which content the file has (see FileByte)
    isWindows,
    argCount,       \* number of file arguments on the command line
    \* program (commander) options
    blockSizeOpt, startOffsetOpt, hexaOpt, offsetOpt,
    \* fields of the HexaFile object
    currentOffset, bufferStart, buffer, fd, fstat, currentLine, maxLine,
    \* the process
    pc,             \* where the process is
    immediate,      \* a printLine continuation is queued with setImmediate
    pipeClosed,     \* the consumer of stdout has closed the pipe
    sigPending,     \* SIGPIPE / EPIPE raised, handler not yet run
    exitCode,       \* exit code once pc = "exited"
    \* observations
    lastLine,       \* text of the last dump line handed to console.log
    emitted,        \* number of dump lines handed to console.log
    warnings,       \* number of warnings printed
    reported,       \* what the main catch printed (<<>> if nothing)
    reads,          \* offsets of the readSync calls made, in order
    lookups,        \* buffer lookups <<offset, bufferStart>> of the last printLine
    fdOpen,         \* the descriptor is open in the operating system
    closes,         \* number of closeSync calls made
    closedAt,       \* number of lines emitted when the pipe was closed (-1: open)
    handlerRan,     \* the global cleanup ran as SIGPIPE / EPIPE handler
    emittedAtHandler, \* lines emitted when the handler ran (-1: did not run)
    uncaught,       \* the process died of an uncaught exception
    helped,         \* program.help() printed the usage text
    \* a caller of the class, and offsets past 32 bits
    offsetHigh,     \* the offset is offsetHigh * 2^24 + currentOffset
    requested,      \* offset of the last readByteFromFile call of the caller
    returned,       \* what that call returned
    calls           \* number of calls the caller made

env == <<fileKind, fileSize, fileSeed, isWindows, argCount>>
opts == <<blockSizeOpt, startOffsetOpt, hexaOpt, offsetOpt>>
obj == <<currentOffset, bufferStart, buffer, fd, fstat, currentLine, maxLine>>
proc == <<pc, immediate, pipeClosed, sigPending, exitCode>>
obs == <<lastLine, emitted, warnings, reported, reads, lookups, fdOpen, closes,
         closedAt, handlerRan, emittedAtHandler, uncaught>>
caller == <<helped, offsetHigh, requested, returned, calls>>
vars == <<env, opts, obj, proc, obs, caller>>

\* ------------------------------------------------------------ file content

\* The byte the file holds at offset o.  Seed 0 starts "ABCDEFGHIJ...",
\* seed 1 starts at 0xA0 and runs through 0xAD and the codes above 160.
\* The o \div 251 term keeps contents BUFFER_LENGTH apart different.
FileByte(o) == (65 + 95 * fileSeed + o + (o \div 251)) % 256

\* number of bytes a readSync of BUFFER_LENGTH bytes at offset gets
BytesRead(offset) ==
    IF offset >= fileSize THEN 0
    ELSE IF fileSize - offset < BUFFER_LENGTH THEN fileSize - offset
    ELSE BUFFER_LENGTH

\* ------------------------------------------------------------- the buffer
\* A Buffer of BUFFER_LENGTH bytes is kept as the list of its runs:
\* [lo, hi) holds zeroes (src = -1) or the file's bytes from offset src on.

BufferAlloc == << [lo |-> 0, hi |-> BUFFER_LENGTH, src |-> -1] >>

BufferTail(buf, n) ==
    LET kept == SelectSeq(buf, LAMBDA s : s.hi > n)
    IN  [i \in 1..Len(kept) |->
            IF kept[i].lo >= n THEN kept[i]
            ELSE [lo |-> n, hi |-> kept[i].hi,
                  src |-> IF kept[i].src < 0 THEN -1
                          ELSE kept[i].src + (n - kept[i].lo)]]

\* the buffer after n bytes of the file from offset on were copied to its start
BufferFill(buf, offset, n) ==
    IF n <= 0 THEN buf
    ELSE << [lo |-> 0, hi |-> n, src |-> offset] >> \o BufferTail(buf, n)

RECURSIVE BufferRun(_, _, _)
\* the byte at idx, which lies in the i-th run of buf or in a later one
BufferRun(buf, idx, i) ==
    IF idx < buf[i].hi
    THEN IF buf[i].src < 0 THEN 0 ELSE FileByte(buf[i].src + (idx - buf[i].lo))
    ELSE BufferRun(buf, idx, i + 1)

\* buffer[idx]; undefined outside the buffer
BufferAt(buf, idx) ==
    IF idx < 0 \/ idx >= BUFFER_LENGTH \/ buf = << >> THEN UNDEFINED
    ELSE BufferRun(buf, idx, 1)

\* ------------------------------------------------------------ conversions

HexDigit(d) == IF d < 10 THEN 48 + d ELSE 87 + d

RECURSIVE ToString16(_)
\* Number.prototype.toString(16) of a non-negative integer
ToString16(n) ==
    IF n < 16 THEN << HexDigit(n) >>
    ELSE ToString16(n \div 16) \o << HexDigit(n % 16) >>

\* String.prototype.substr(-k): the last k characters
SubstrLast(s, k) ==
    IF Len(s) <= k THEN s ELSE SubSeq(s, Len(s) - k + 1, Len(s))

convertByteTotHexa(number) == SubstrLast(<<48, 48>> \o ToString16(number), 2)

\* convertByteTotHexa of every byte, tabulated
byteHexa == [number \in 0..255 |-> convertByteTotHexa(number)]

\* number <= MAX_32BIT (0xffffffff), written on the two 16-bit halves
AtMostMax32(number) == number \div 65536 <= 65535

convertOffsetTotHexa(number) ==
    IF AtMostMax32(number)
    THEN SubstrLast(<<48, 48, 48, 48, 48, 48, 48, 48>> \o ToString16(number), 8)
    ELSE SubstrLast(<<48, 48, 48, 48, 48, 48, 48, 48, 48, 48, 48, 48, 48, 48, 48, 48>>
                    \o ToString16(number), 16)

\* the value of a one-element set: The({e(x) : x \in {v}}) is e(v), with v
\* evaluated once
The(S) == CHOOSE x \in S : TRUE

\* -------------------------------------------------- the HexaFile methods
\* A method that changes the object takes the fields it may change as the
\* record self and returns the record after the call:
\*   bufferStart, buffer   the fields of the object
\*   reads, lookups        the readSync calls and the buffer lookups made
\*   readOk                whether the readSync calls of this run succeed
\*   threw                 readSync threw, the exception is propagating

Self(ok) == [bufferStart |-> bufferStart, buffer |-> buffer, reads |-> reads,
             lookups |-> {}, readOk |-> ok, threw |-> FALSE]

\* a read that ignores the position it is given
readChunkFromStart(self, offset) ==
    IF self.readOk
    THEN [self EXCEPT !.buffer = BufferFill(@, 0, BytesRead(0)),
                      !.reads = Append(@, offset)]
    ELSE [self EXCEPT !.reads = Append(@, offset), !.threw = TRUE]

readChunk(self, offset) ==
    IF self.readOk
    THEN [self EXCEPT !.buffer = BufferFill(@, offset, BytesRead(offset)),
                      !.reads = Append(@, offset)]
    ELSE [self EXCEPT !.reads = Append(@, offset), !.threw = TRUE]

checkBuffer(self, offset) ==
    IF offset >= BUFFER_LENGTH + self.bufferStart
    THEN readChunk([self EXCEPT !.bufferStart = offset], offset)
    ELSE self

\* the object after readByteFromFile(offset)
readByteFromFile(self, offset) ==
    IF offset < fstat
    THEN The({ IF s1.threw THEN s1
               ELSE [s1 EXCEPT !.lookups = @ \cup {<<offset, s1.bufferStart>>}]
               : s1 \in {checkBuffer(self, offset)} })
    ELSE self

\* the end of file taken one byte late
readByteFromFileValueLate(after, offset) ==
    IF offset <= fstat
    THEN BufferAt(after.buffer, offset - after.bufferStart)
    ELSE EOF

\* the value readByteFromFile(offset) returns, after being the object after it
readByteFromFileValue(after, offset) ==
    IF offset < fstat
    THEN BufferAt(after.buffer, offset - after.bufferStart)
    ELSE EOF

\* the text getByteHexa(offset) returns
getByteHexa(after, offset) ==
    The({ IF byte > -1 THEN byteHexa[byte] ELSE <<46, 46>>
          : byte \in {readByteFromFileValue(after, offset)} })

\* a gloss without the exception made for 0xAD
getAsciiShowsSoftHyphen(after, offset) ==
    The({ IF ((~isWindows /\ code > 160) \/ (code >= 32 /\ code < 127))
          THEN << code >> ELSE << 46 >>
          : code \in {readByteFromFileValue(after, offset)} })

\* the text getAscii(offset) returns
getAscii(after, offset) ==
    The({ IF (((~isWindows /\ code > 160) \/ (code >= 32 /\ code < 127))
               /\ code # 173)
          THEN << code >> ELSE << 46 >>
          : code \in {readByteFromFileValue(after, offset)} })

\* a separator that leaves out the one after the last byte of the line
groupSeparatorInside(pos) ==
    IF pos # 0 /\ pos < LINE_WIDTH /\ (8 * pos) % blockSizeOpt = 0
    THEN <<32, 32>> ELSE << >>

\* lines 142-144, with pos already incremented: what is added to hexa.
\* pos % spacing = 0 with spacing = blockSize / 8 is written
\* (8 * pos) % blockSize = 0
groupSeparator(pos) ==
    IF pos # 0 /\ (8 * pos) % blockSizeOpt = 0 THEN <<32, 32>> ELSE << >>

\* one turn of the while loop of generateLine, lines 138-144, on
\* st = [self, hexa, ascii]; a turn after readSync threw does nothing.
\* s1 is the object after getByteHexa, s2 the object after getAscii
generateLineStep(st, pos) ==
    IF st.self.threw THEN st
    ELSE The({ IF s1.threw THEN [st EXCEPT !.self = s1]
               ELSE The({ IF s2.threw THEN [st EXCEPT !.self = s2]
                          ELSE [self |-> s2,
                                hexa |-> st.hexa \o getByteHexa(s1, currentOffset + pos)
                                         \o groupSeparator(pos + 1),
                                ascii |-> st.ascii \o getAscii(s2, currentOffset + pos)]
                          : s2 \in {readByteFromFile(s1, currentOffset + pos)} })
               : s1 \in {readByteFromFile(st.self, currentOffset + pos)} })

RECURSIVE generateLineLoop(_, _, _)
\* the turns lo .. hi - 1 of the while loop, in order (the range is split
\* in two to keep the evaluation shallow)
generateLineLoop(st, lo, hi) ==
    IF hi - lo = 1 THEN generateLineStep(st, lo)
    ELSE The({ generateLineLoop(mid, (lo + hi) \div 2, hi)
               : mid \in {generateLineLoop(st, lo, (lo + hi) \div 2)} })

\* a line that holds the hex portion whatever showHexa is
generateLineAlwaysHexa(self) ==
    The({ [self |-> r.self, text |-> r.hexa \o r.ascii]
          : r \in {generateLineLoop([self |-> self, hexa |-> << >>, ascii |-> << >>],
                                    0, LINE_WIDTH)} })

\* returns [self, text]
generateLine(self) ==
    The({ [self |-> r.self,
           text |-> IF hexaOpt THEN r.hexa \o r.ascii ELSE r.ascii]
          : r \in {generateLineLoop([self |-> self, hexa |-> << >>, ascii |-> << >>],
                                    0, LINE_WIDTH)} })

getOffset == convertOffsetTotHexa(currentOffset)

\* the line printLine builds: [self, text]
printLineText(ok) ==
    The({ [self |-> g.self,
           text |-> (IF offsetOpt THEN getOffset \o <<32, 32, 32>> ELSE << >>) \o g.text]
          : g \in {generateLine(Self(ok))} })

\* a refill taken to be due a line, not a buffer, past bufferStart
LineRefillsShortWindow ==
    /\ LINE_WIDTH + bufferStart < currentOffset + LINE_WIDTH
    /\ LINE_WIDTH + bufferStart < fstat
    /\ currentOffset < fstat

\* some offset of the line at currentOffset needs a refill of the buffer
LineRefills ==
    /\ BUFFER_LENGTH + bufferStart < currentOffset + LINE_WIDTH
    /\ BUFFER_LENGTH + bufferStart < fstat
    /\ currentOffset < fstat

\* ----------------------------------------------------------------- actions

\* console.log on stdout: writing to a closed pipe raises SIGPIPE / EPIPE
ConsoleLog == sigPending' = (sigPending \/ pipeClosed)

\* printLine, lines 91-110, with its reads succeeding
printLine ==
    \E r \in {printLineText(TRUE)} :
        /\ bufferStart' = r.self.bufferStart
        /\ buffer' = r.self.buffer
        /\ reads' = r.self.reads
        /\ lookups' = r.self.lookups
        /\ currentOffset' = currentOffset + LINE_WIDTH
        /\ lastLine' = r.text
        /\ emitted' = emitted + 1
        /\ ConsoleLog
        /\ currentLine' = currentLine + 1
        /\ immediate' = (currentLine + 1 < maxLine)

\* printLine when the readSync of its refill throws: nothing is printed
printLineThrows ==
    \E r \in {printLineText(FALSE)} :
        /\ LineRefills
        /\ bufferStart' = r.self.bufferStart
        /\ buffer' = r.self.buffer
        /\ reads' = r.self.reads
        /\ lookups' = r.self.lookups
        /\ UNCHANGED <<currentOffset, lastLine, emitted, sigPending, currentLine>>

\* a global cleanup that exits without closing the file
CleanupNoClose ==
    /\ UNCHANGED <<closes, fdOpen>>
    /\ pc' = "exited"
    /\ exitCode' = 0

\* HexaFile.cleanup followed by process.exit() (global cleanup)
Cleanup ==
    /\ IF fd # 0
       THEN closes' = closes + 1 /\ fdOpen' = FALSE
       ELSE UNCHANGED <<closes, fdOpen>>
    /\ pc' = "exited"
    /\ exitCode' = 0

\* statFile without its test of the size
StatFileAnySize ==
    /\ pc = "statFile"
    /\ IF fileKind = "missing" THEN
            /\ pc' = "catch"
            /\ reported' = "Error: cannot open file"
            /\ UNCHANGED fstat
       ELSE IF fileKind = "directory" THEN
            /\ pc' = "catch"
            /\ reported' = "Error: ch only works on files"
            /\ fstat' = fileSize
       ELSE /\ pc' = "checkStartOffset"
            /\ fstat' = fileSize
            /\ UNCHANGED reported
    /\ UNCHANGED <<env, opts, caller, currentOffset, bufferStart, buffer, fd, currentLine,
                   maxLine, immediate, pipeClosed, sigPending, exitCode, lastLine,
                   emitted, warnings, reads, lookups, fdOpen, closes, closedAt,
                   handlerRan, emittedAtHandler, uncaught>>

\* statFile, lines 28-42, called first by openFile
StatFile ==
    /\ pc = "statFile"
    /\ IF fileKind = "missing" THEN
            /\ pc' = "catch"
            /\ reported' = "Error: cannot open file"
            /\ UNCHANGED fstat
       ELSE IF fileKind = "directory" THEN
            /\ pc' = "catch"
            /\ reported' = "Error: ch only works on files"
            /\ fstat' = fileSize
       ELSE IF fileSize = 0 THEN
            /\ pc' = "catch"
            /\ reported' = "Empty file"
            /\ fstat' = fileSize
       ELSE /\ pc' = "checkStartOffset"
            /\ fstat' = fileSize
            /\ UNCHANGED reported
    /\ UNCHANGED <<env, opts, caller, currentOffset, bufferStart, buffer, fd, currentLine,
                   maxLine, immediate, pipeClosed, sigPending, exitCode, lastLine,
                   emitted, warnings, reads, lookups, fdOpen, closes, closedAt,
                   handlerRan, emittedAtHandler, uncaught>>

\* checkStartOffset resetting currentOffset only
CheckStartOffsetKeepsBufferStart ==
    /\ pc = "checkStartOffset"
    /\ IF currentOffset >= fstat
       THEN /\ warnings' = warnings + 1
            /\ sigPending' = (sigPending \/ pipeClosed)
            /\ currentOffset' = 0
            /\ UNCHANGED bufferStart
       ELSE UNCHANGED <<warnings, sigPending, currentOffset, bufferStart>>
    /\ pc' = "openSync"
    /\ UNCHANGED <<env, opts, caller, buffer, fd, fstat, currentLine, maxLine, immediate,
                   pipeClosed, exitCode, lastLine, emitted, reported, reads, lookups,
                   fdOpen, closes, closedAt, handlerRan, emittedAtHandler, uncaught>>

\* checkStartOffset, lines 62-68
CheckStartOffset ==
    /\ pc = "checkStartOffset"
    /\ IF currentOffset >= fstat
       THEN /\ warnings' = warnings + 1
            /\ ConsoleLog
            /\ currentOffset' = 0
            /\ bufferStart' = 0
       ELSE UNCHANGED <<warnings, sigPending, currentOffset, bufferStart>>
    /\ pc' = "openSync"
    /\ UNCHANGED <<env, opts, caller, buffer, fd, fstat, currentLine, maxLine, immediate,
                   pipeClosed, exitCode, lastLine, emitted, reported, reads, lookups,
                   fdOpen, closes, closedAt, handlerRan, emittedAtHandler, uncaught>>

\* fs.openSync and Buffer.alloc, lines 53-54; the open may be refused
OpenSync ==
    /\ pc = "openSync"
    /\ \E ok \in BOOLEAN :
        IF ok
        THEN /\ fd' = 3
             /\ fdOpen' = TRUE
             /\ buffer' = BufferAlloc
             /\ pc' = "readChunk"
             /\ UNCHANGED reported
        ELSE /\ pc' = "catch"
             /\ reported' = "EACCES"
             /\ UNCHANGED <<fd, fdOpen, buffer>>
    /\ UNCHANGED <<env, opts, caller, currentOffset, bufferStart, fstat, currentLine, maxLine,
                   immediate, pipeClosed, sigPending, exitCode, lastLine, emitted,
                   warnings, reads, lookups, closes, closedAt, handlerRan,
                   emittedAtHandler, uncaught>>

\* a first read at the start of the file, whatever currentOffset is
ReadFirstChunkAtZero ==
    /\ pc = "readChunk"
    /\ \E ok \in BOOLEAN :
        \E s \in {readChunk(Self(ok), 0)} :
            /\ buffer' = s.buffer
            /\ reads' = s.reads
            /\ IF s.threw
               THEN pc' = "catch" /\ reported' = "EIO"
               ELSE pc' = "print" /\ UNCHANGED reported
    /\ UNCHANGED <<env, opts, caller, currentOffset, bufferStart, fd, fstat, currentLine,
                   maxLine, immediate, pipeClosed, sigPending, exitCode, lastLine,
                   emitted, warnings, lookups, fdOpen, closes, closedAt, handlerRan,
                   emittedAtHandler, uncaught>>

\* the first readChunk, line 55; the read may fail
ReadFirstChunk ==
    /\ pc = "readChunk"
    /\ \E ok \in BOOLEAN :
        \E s \in {readChunk(Self(ok), currentOffset)} :
            /\ buffer' = s.buffer
            /\ reads' = s.reads
            /\ IF s.threw
               THEN pc' = "catch" /\ reported' = "EIO"
               ELSE pc' = "print" /\ UNCHANGED reported
    /\ UNCHANGED <<env, opts, caller, currentOffset, bufferStart, fd, fstat, currentLine,
                   maxLine, immediate, pipeClosed, sigPending, exitCode, lastLine,
                   emitted, warnings, lookups, fdOpen, closes, closedAt, handlerRan,
                   emittedAtHandler, uncaught>>

\* rounding down where the code rounds up
FloorDiv(a, b) == a \div b

\* Math.ceil(a / b), line 116
CeilDiv(a, b) == (a + b - 1) \div b

\* print, lines 115-119: sets the counters and prints the first line; the
\* main script ends and the event loop starts
print ==
    /\ pc = "print"
    /\ maxLine' = CeilDiv(fstat, LINE_WIDTH)
    /\ \E r \in {printLineText(TRUE)} :
           /\ bufferStart' = r.self.bufferStart
           /\ buffer' = r.self.buffer
           /\ reads' = r.self.reads
           /\ lookups' = r.self.lookups
           /\ currentOffset' = currentOffset + LINE_WIDTH
           /\ lastLine' = r.text
           /\ emitted' = emitted + 1
           /\ ConsoleLog
           /\ currentLine' = 0 + 1
           /\ immediate' = (0 + 1 < maxLine')
    /\ pc' = "poll"
    /\ UNCHANGED <<env, opts, caller, fd, fstat, pipeClosed, exitCode, warnings, reported,
                   fdOpen, closes, closedAt, handlerRan, emittedAtHandler, uncaught>>

\* the catch of the main script, lines 307-310
MainCatch ==
    /\ pc = "catch"
    /\ Cleanup
    /\ UNCHANGED <<env, opts, caller, obj, immediate, pipeClosed, sigPending, lastLine,
                   emitted, warnings, reported, reads, lookups, closedAt, handlerRan,
                   emittedAtHandler, uncaught>>

\* the SIGPIPE handler / the EPIPE listener of stdout, lines 287-296
PipeHandler ==
    /\ pc = "poll"
    /\ sigPending
    /\ Cleanup
    /\ handlerRan' = TRUE
    /\ emittedAtHandler' = emitted
    /\ UNCHANGED <<env, opts, caller, obj, immediate, pipeClosed, sigPending, lastLine,
                   emitted, warnings, reported, reads, lookups, closedAt, uncaught>>

\* the event loop goes on to the setImmediate callbacks
PollIdle ==
    /\ pc = "poll"
    /\ ~sigPending
    /\ immediate
    /\ pc' = "check"
    /\ UNCHANGED <<env, opts, caller, obj, immediate, pipeClosed, sigPending, exitCode, obs>>

\* nothing is left to run: the process ends by itself
LoopEnds ==
    /\ pc = "poll"
    /\ ~sigPending
    /\ ~immediate
    /\ pc' = "exited"
    /\ exitCode' = 0
    /\ UNCHANGED <<env, opts, caller, obj, immediate, pipeClosed, sigPending, obs>>

\* the continuation queued at line 108 runs printLine
RunImmediate ==
    /\ pc = "check"
    /\ immediate
    /\ ~LineRefills
    /\ printLine
    /\ pc' = "poll"
    /\ UNCHANGED <<env, opts, caller, fd, fstat, maxLine, pipeClosed, exitCode, warnings,
                   reported, fdOpen, closes, closedAt, handlerRan, emittedAtHandler,
                   uncaught>>

\* the continuation runs printLine, which refills the buffer
RunImmediateRefill ==
    /\ pc = "check"
    /\ immediate
    /\ LineRefills
    /\ printLine
    /\ pc' = "poll"
    /\ UNCHANGED <<env, opts, caller, fd, fstat, maxLine, pipeClosed, exitCode, warnings,
                   reported, fdOpen, closes, closedAt, handlerRan, emittedAtHandler,
                   uncaught>>

\* the continuation runs printLine and the refill's readSync throws: nothing
\* catches it, the process dies with exit code 1
RunImmediateThrows ==
    /\ pc = "check"
    /\ immediate
    /\ printLineThrows
    /\ pc' = "exited"
    /\ exitCode' = 1
    /\ uncaught' = TRUE
    /\ immediate' = FALSE
    /\ UNCHANGED <<env, opts, caller, fd, fstat, maxLine, pipeClosed, warnings,
                   reported, fdOpen, closes, closedAt, handlerRan, emittedAtHandler>>

\* the consumer of stdout closes the pipe
ClosePipe ==
    /\ pc # "exited"
    /\ ~pipeClosed
    /\ pipeClosed' = TRUE
    /\ closedAt' = emitted
    /\ UNCHANGED <<env, opts, caller, obj, pc, immediate, sigPending, exitCode, lastLine,
                   emitted, warnings, reported, reads, lookups, fdOpen, closes,
                   handlerRan, emittedAtHandler, uncaught>>

\* ------------------------------------------------------------------- Init

\* the state after new HexaFile(...), lines 13-22 and 304
Constructed ==
    /\ currentOffset = startOffsetOpt
    /\ bufferStart = startOffsetOpt
    /\ buffer = << >>
    /\ fd = 0
    /\ fstat = -1
    /\ currentLine = -1
    /\ maxLine = -1
    /\ pc = "statFile"
    /\ immediate = FALSE
    /\ pipeClosed = FALSE
    /\ sigPending = FALSE
    /\ exitCode = -1
    /\ lastLine = << >>
    /\ emitted = 0
    /\ warnings = 0
    /\ reported = ""
    /\ reads = << >>
    /\ lookups = {}
    /\ fdOpen = FALSE
    /\ closes = 0
    /\ closedAt = -1
    /\ handlerRan = FALSE
    /\ emittedAtHandler = -1
    /\ uncaught = FALSE
    /\ helped = FALSE
    /\ offsetHigh = 0
    /\ requested = -1
    /\ returned = UNDEFINED
    /\ calls = 0

\* the start offsets tried on a file of size bytes
StartOffsets(size) ==
    {s \in {0, 1, size - 1, size, size + MaxBeyond} : s >= 0}

\* the file sizes tried: the sizes up to MaxSize next to a multiple of
\* LINE_WIDTH, and the 10-byte file
FileSizes ==
    {n \in 0..MaxSize :
        n % LINE_WIDTH \in {0, 1, LINE_WIDTH - 1} \/ n = 10 \/ n = MaxSize}

Init ==
    /\ fileKind \in {"missing", "directory", "file"}
    /\ fileSize \in IF fileKind = "file" THEN FileSizes ELSE {0, MaxSize}
    /\ fileSeed \in IF fileKind = "file" THEN 0..MaxSeed ELSE {0}
    /\ isWindows \in BOOLEAN
    /\ argCount = 1
    /\ blockSizeOpt \in BlockSizes
    /\ startOffsetOpt \in StartOffsets(fileSize)
    /\ hexaOpt \in BOOLEAN
    /\ offsetOpt \in BOOLEAN
    /\ Constructed

Next ==
    \/ StatFile
    \/ CheckStartOffset
    \/ OpenSync
    \/ ReadFirstChunk
    \/ print
    \/ MainCatch
    \/ PipeHandler
    \/ PollIdle
    \/ LoopEnds
    \/ RunImmediate
    \/ ClosePipe

Spec == Init /\ [][Next]_vars

\* ------------------------------------------- files larger than the buffer

\* the <<file size, start offset>> of the runs on large files
BigRuns ==
    { <<BUFFER_LENGTH + LINE_WIDTH + MaxTail, BUFFER_LENGTH + LINE_WIDTH + MaxTail + BigStart>>,
      <<2 * BUFFER_LENGTH + MaxTail, BigStart>> }

InitBig ==
    /\ fileKind = "file"
    /\ fileSeed = 1
    /\ isWindows = FALSE
    /\ argCount = 1
    /\ blockSizeOpt = 8
    /\ hexaOpt = TRUE
    /\ offsetOpt = TRUE
    /\ \E run \in BigRuns : fileSize = run[1] /\ startOffsetOpt = run[2]
    /\ Constructed

NextBig ==
    \/ StatFile
    \/ CheckStartOffset
    \/ OpenSync
    \/ ReadFirstChunk
    \/ print
    \/ MainCatch
    \/ PollIdle
    \/ LoopEnds
    \/ RunImmediate
    \/ RunImmediateRefill
    \/ RunImmediateThrows

SpecBig == InitBig /\ [][NextBig]_vars

\* ---------------------------------------------------------------- fairness
\* Node runs the main script to its end and then every queued callback and
\* pending handler: each step of the program is taken once it can be.  The
\* consumer of stdout is free to close the pipe or not.

ProgramStep ==
    \/ StatFile
    \/ CheckStartOffset
    \/ OpenSync
    \/ ReadFirstChunk
    \/ print
    \/ MainCatch
    \/ PipeHandler
    \/ PollIdle
    \/ LoopEnds
    \/ RunImmediate

\* the runs with the default options, for the properties of whole runs
InitDefault ==
    /\ Init
    /\ blockSizeOpt = 8 /\ hexaOpt /\ offsetOpt
    /\ ~isWindows /\ fileSeed = 0

FairSpec == InitDefault /\ [][Next]_vars /\ WF_vars(ProgramStep)

\* ------------------------------------------------- reading the output back

\* a dump of the file was started (print was entered)
Dumping == emitted > 0

\* offset of the first byte of the last line emitted
LastLineStart == currentOffset - LINE_WIDTH

\* length of the offset column with its three spaces
OffsetPartLen == IF offsetOpt THEN 8 + 3 ELSE 0

\* the hex portion of the last line: between the offset column and the gloss
HexPart ==
    IF hexaOpt
    THEN SubSeq(lastLine, OffsetPartLen + 1, Len(lastLine) - LINE_WIDTH)
    ELSE << >>

\* the character gloss of the last line: its last LINE_WIDTH characters
GlossPart == SubSeq(lastLine, Len(lastLine) - LINE_WIDTH + 1, Len(lastLine))

\* the positions of s that hold a space
Spaces(s) == {i \in 1..Len(s) : s[i] = 32}

\* the numbers n such that a two-space separator follows the n-th hex cell of
\* s: a cell is the two characters other than spaces
SeparatorsAfter(s) ==
    { Cardinality({j \in 1..(i - 1) : s[j] # 32}) \div 2 :
        i \in {k \in 1..(Len(s) - 1) :
                 s[k] = 32 /\ s[k + 1] = 32 /\ (k = 1 \/ s[k - 1] # 32)} }

\* bytes per group
GroupSize == blockSizeOpt \div 8

\* the least n with n * LINE_WIDTH >= fileSize
ExpectedLines ==
    CHOOSE n \in 0..fileSize :
        n * LINE_WIDTH >= fileSize /\ (n = 0 \/ (n - 1) * LINE_WIDTH < fileSize)

\* ------------------------------------------------------------------ claims

\* C1 (as claimed): the hex portion of every line has exactly 24/g - 1
\* two-space separators, after bytes g, 2g, ..., 24-g, and none after byte 24.
C1_SeparatorsNoneAfterLast ==
    (Dumping /\ hexaOpt) =>
        /\ SeparatorsAfter(HexPart) = {GroupSize * k : k \in 1..(LINE_WIDTH \div GroupSize - 1)}
        /\ Cardinality(Spaces(HexPart)) = 2 * (LINE_WIDTH \div GroupSize - 1)

\* C1 (amended): the hex portion of every line has exactly 24/g two-space
\* separators, one after each group: after bytes g, 2g, ..., 24; the one
\* after byte 24 stands between the hex portion and the gloss.
C1_SeparatorAfterEveryGroup ==
    (Dumping /\ hexaOpt) =>
        /\ SeparatorsAfter(HexPart) = {GroupSize * k : k \in 1..(LINE_WIDTH \div GroupSize)}
        /\ Cardinality(Spaces(HexPart)) = 2 * (LINE_WIDTH \div GroupSize)

\* a line with 4-byte groups and its six separators was printed
C1_Witness ==
    /\ Dumping /\ hexaOpt /\ blockSizeOpt = 32
    /\ SeparatorsAfter(HexPart) = {4, 8, 12, 16, 20, 24}

\* the dump is over without the pipe closed and without a failed read
RanToCompletion ==
    /\ pc = "exited" /\ Dumping /\ ~pipeClosed /\ ~uncaught

\* C2: a dump that is not cancelled and meets no read failure ends having
\* emitted exactly ceil(S / 24) lines: the count never exceeds that number,
\* nothing is scheduled once it is reached, and the process ends.
C2_EmitsCeilLines ==
    /\ [](Dumping => emitted <= ExpectedLines)
    /\ []((Dumping /\ emitted = ExpectedLines) => ~immediate)
    /\ [](RanToCompletion => emitted = ExpectedLines)
    /\ [](pc = "print" => <>(pc = "exited"))

\* a dump of several lines ran to completion
C2_Witness ==
    /\ RanToCompletion /\ emitted = 3 /\ fileSize = 2 * LINE_WIDTH + 1
    /\ startOffsetOpt = 1

\* C3: every emitted line begins at an offset below the file size, for every
\* valid start offset.
C3_LinesStartInsideFile ==
    Dumping => LastLineStart < fileSize

\* ------------------------------------------------------ the expected output
\* What a line of the dump is to hold, written from the file's content.

HexDigits == <<48, 49, 50, 51, 52, 53, 54, 55, 56, 57, 97, 98, 99, 100, 101, 102>>

\* the value of a lowercase hex digit, -1 for any other character
HexValue(c) ==
    IF c >= 48 /\ c <= 57 THEN c - 48
    ELSE IF c >= 97 /\ c <= 102 THEN c - 87
    ELSE -1

RefOffsetColumn(off) == [i \in 1..8 |-> HexDigits[((off \div (16 ^ (8 - i))) % 16) + 1]]

RefHexCell(off) ==
    IF off < fileSize
    THEN <<HexDigits[(FileByte(off) \div 16) + 1], HexDigits[(FileByte(off) % 16) + 1]>>
    ELSE <<46, 46>>

RECURSIVE RefHexaFrom(_, _)
\* the cells j .. LINE_WIDTH - 1 of the line at off, a separator after each group
RefHexaFrom(off, j) ==
    IF j >= LINE_WIDTH THEN << >>
    ELSE RefHexCell(off + j)
         \o (IF (j + 1) % GroupSize = 0 THEN <<32, 32>> ELSE << >>)
         \o RefHexaFrom(off, j + 1)

RefGlossChar(off) ==
    IF off >= fileSize THEN 46
    ELSE IF FileByte(off) = 173 THEN 46
    ELSE IF FileByte(off) >= 32 /\ FileByte(off) < 127 THEN FileByte(off)
    ELSE IF ~isWindows /\ FileByte(off) > 160 THEN FileByte(off)
    ELSE 46

RefGloss(off) == [j \in 1..LINE_WIDTH |-> RefGlossChar(off + j - 1)]

RefLine(off) ==
    (IF offsetOpt THEN RefOffsetColumn(off) \o <<32, 32, 32>> ELSE << >>)
    \o (IF hexaOpt THEN RefHexaFrom(off, 0) ELSE << >>)
    \o RefGloss(off)

\* the hex cells of the last line, separators removed
HexCells == SelectSeq(HexPart, LAMBDA c : c # 32)

\* the start offset asked for is at or past the end of a file that can be dumped
StartBeyondEnd == fileKind = "file" /\ fileSize > 0 /\ startOffsetOpt >= fileSize

\* checkStartOffset has run
Validated == pc \notin {"statFile", "checkStartOffset"}

\* C4: with a start offset >= S exactly one warning is printed, currentOffset
\* and bufferStart are 0 before the first chunk is read (which is read at 0),
\* and the lines are those of the run with start offset 0; after validation
\* the start offset is in [0, S).
C4_StartBeyondEndRestartsAtZero ==
    (fileKind = "file" /\ fileSize > 0) =>
        /\ warnings = IF StartBeyondEnd /\ Validated THEN 1 ELSE 0
        /\ (pc \in {"openSync", "readChunk"} =>
                /\ 0 <= currentOffset /\ currentOffset < fileSize
                /\ bufferStart = currentOffset
                /\ reads = << >>)
        /\ ((StartBeyondEnd /\ pc \in {"openSync", "readChunk"}) => currentOffset = 0)
        /\ ((StartBeyondEnd /\ reads # << >>) => reads[1] = 0)
        /\ (((StartBeyondEnd \/ startOffsetOpt = 0) /\ Dumping) =>
                lastLine = RefLine(LINE_WIDTH * (emitted - 1)))

\* the 50-byte file dumped from offset 100: three lines after one warning
C4_Witness ==
    /\ StartBeyondEnd /\ fileSize = 50 /\ startOffsetOpt = 100
    /\ pc = "exited" /\ emitted = 3 /\ warnings = 1
    /\ lastLine = RefLine(48)

\* C5: across the refills of a dump, the hex cell of every offset below the
\* file size is two lowercase hex digits whose value is the file's byte there.
C5_HexCellsShowFileBytes ==
    (Dumping /\ hexaOpt) =>
        \A cells \in {HexCells} :
            \A j \in 0..(LINE_WIDTH - 1) :
                (LastLineStart + j < fileSize) =>
                    /\ HexValue(cells[2 * j + 1]) >= 0
                    /\ HexValue(cells[2 * j + 2]) >= 0
                    /\ 16 * HexValue(cells[2 * j + 1]) + HexValue(cells[2 * j + 2])
                         = FileByte(LastLineStart + j)

\* a line was rendered across a refill: its first bytes from the window that
\* started at BigStart, the others from the window read next
C5_Witness ==
    /\ Dumping /\ hexaOpt /\ ~uncaught
    /\ startOffsetOpt = BigStart
    /\ Len(reads) = 2
    /\ \E l \in lookups : l[2] = reads[1]
    /\ \E l \in lookups : l[2] = reads[2]

\* C6: every line has 24 hex cells and 24 gloss characters; a position at or
\* past the end of file shows ".." and ".", and is served without a buffer
\* lookup and without a read.
C6_PaddedToFullWidth ==
    Dumping =>
        /\ Len(lastLine) = OffsetPartLen + LINE_WIDTH
                           + (IF hexaOpt
                              THEN 2 * LINE_WIDTH + 2 * (LINE_WIDTH \div GroupSize)
                              ELSE 0)
        /\ hexaOpt =>
             \A cells \in {HexCells} :
                /\ Len(cells) = 2 * LINE_WIDTH
                /\ \A j \in 0..(LINE_WIDTH - 1) :
                      (LastLineStart + j >= fileSize) =>
                          cells[2 * j + 1] = 46 /\ cells[2 * j + 2] = 46
        /\ \A j \in 0..(LINE_WIDTH - 1) :
              (LastLineStart + j >= fileSize) => GlossPart[j + 1] = 46
        /\ \A l \in lookups : l[1] < fileSize
        /\ \A i \in 1..Len(reads) : reads[i] < fileSize

\* the 10-byte file "ABCDEFGHIJ": one line, 14 padded positions
C6_Witness ==
    /\ Dumping /\ hexaOpt /\ offsetOpt /\ fileSize = 10 /\ fileSeed = 0
    /\ blockSizeOpt = 8 /\ startOffsetOpt = 0
    /\ GlossPart = <<65, 66, 67, 68, 69, 70, 71, 72, 73, 74,
                     46, 46, 46, 46, 46, 46, 46, 46, 46, 46, 46, 46, 46, 46>>
    /\ SubSeq(HexCells, 19, 22) = <<52, 97, 46, 46>>
    /\ SubSeq(lastLine, 1, 8) = <<48, 48, 48, 48, 48, 48, 48, 48>>

\* C7: once the file was opened, the process never ends with the handle open.
C7_HandleClosedAtExit ==
    pc = "exited" => ~fdOpen

\* C8: when the consumer closes the pipe while lines remain, at most one
\* further line is emitted, then the handler runs: it closes the file, exits,
\* and no line follows it.
C8_PipeClosedStopsDump ==
    /\ [](closedAt >= 0 => emitted <= closedAt + 1)
    /\ [](handlerRan => (pc = "exited" /\ ~fdOpen /\ closes = 1
                          /\ emitted = emittedAtHandler))
    /\ []((pipeClosed /\ pc \in {"print", "poll", "check"} /\ closedAt < ExpectedLines)
            => <>handlerRan)

\* the pipe was closed after the first of three lines: the dump stopped at two
C8_Witness ==
    /\ handlerRan /\ closedAt = 1 /\ emitted = 2 /\ ExpectedLines = 3
    /\ pc = "exited" /\ ~fdOpen

\* the errors of statFile and openSync
FileAccessErrors ==
    {"Error: cannot open file", "Error: ch only works on files", "Empty file", "EACCES"}

\* C9: after a fatal file-access error the process exits with a non-zero code.
C9_FatalErrorExitsNonZero ==
    (pc = "exited" /\ reported \in FileAccessErrors) => exitCode # 0

\* the path cannot be dumped: missing, a directory or an empty file
Undumpable == fileKind # "file" \/ fileSize = 0

\* C10: when the path cannot be stat'ed, is a directory or is an empty file,
\* openFile fails with the matching error before the file is opened and
\* before any chunk is read, and no line is emitted (print is not entered).
C10_NoOpenNoReadNoLine ==
    Undumpable =>
        /\ pc \in {"statFile", "catch", "exited"}
        /\ fd = 0 /\ ~fdOpen /\ buffer = << >>
        /\ reads = << >>
        /\ emitted = 0 /\ maxLine = -1 /\ currentLine = -1
        /\ (pc # "statFile" =>
                reported = IF fileKind = "missing" THEN "Error: cannot open file"
                           ELSE IF fileKind = "directory"
                                THEN "Error: ch only works on files"
                           ELSE "Empty file")

\* an empty file was refused
C10_Witness ==
    /\ fileKind = "file" /\ fileSize = 0 /\ pc = "exited"
    /\ reported = "Empty file" /\ emitted = 0 /\ ~fdOpen

\* ------------------------------------------------- the command line (main)
\* The process from its start: the arguments are validated before an object
\* is constructed.

\* the block sizes given with -b: the four documented and others
ArgBlockSizes == BlockSizes \cup {4, 12, 18, 80, 128}

\* the start offsets given with -s
ArgStartOffsets == {-1, 0, 1}

RECURSIVE String(_)
\* String(n), the decimal digits of a number n >= 0
String(n) ==
    IF n < 10 THEN << 48 + n >> ELSE String(n \div 10) \o << 48 + (n % 10) >>

\* str.match(pattern) finds the characters of pattern somewhere in str
Match(str, pattern) ==
    \E i \in 1..(Len(str) - Len(pattern) + 1) :
        SubSeq(str, i, i + Len(pattern) - 1) = pattern

\* validateParams, lines 250-260: /8|16|32|64/ and parseInt(startOffset) < 0
validateParams ==
    IF ~(\/ Match(String(blockSizeOpt), <<56>>)
         \/ Match(String(blockSizeOpt), <<49, 54>>)
         \/ Match(String(blockSizeOpt), <<51, 50>>)
         \/ Match(String(blockSizeOpt), <<54, 52>>))
    THEN FALSE
    ELSE IF startOffsetOpt < 0 THEN FALSE
    ELSE TRUE

\* main, lines 298-304: program.help() prints the usage text and exits,
\* otherwise the object is constructed (lines 13-22)
Main ==
    /\ pc = "main"
    /\ IF argCount = 0 \/ ~validateParams
       THEN /\ helped' = TRUE
            /\ pc' = "exited"
            /\ exitCode' = 0
            /\ UNCHANGED <<currentOffset, bufferStart>>
       ELSE /\ currentOffset' = startOffsetOpt
            /\ bufferStart' = startOffsetOpt
            /\ pc' = "statFile"
            /\ UNCHANGED <<helped, exitCode>>
    /\ UNCHANGED <<env, opts, buffer, fd, fstat, currentLine, maxLine, immediate,
                   pipeClosed, sigPending, obs, offsetHigh, requested, returned, calls>>

\* the process before main has run: no object yet
InitArgs ==
    /\ fileKind \in {"missing", "directory", "file"}
    /\ fileSize \in IF fileKind = "file" THEN {0, 1, LINE_WIDTH + 1} ELSE {0}
    /\ fileSeed = 0
    /\ isWindows = FALSE
    /\ argCount \in {0, 1}
    /\ blockSizeOpt \in ArgBlockSizes
    /\ startOffsetOpt \in ArgStartOffsets
    /\ hexaOpt = TRUE
    /\ offsetOpt = TRUE
    /\ currentOffset = -1 /\ bufferStart = -1
    /\ buffer = << >> /\ fd = 0 /\ fstat = -1 /\ currentLine = -1 /\ maxLine = -1
    /\ pc = "main"
    /\ immediate = FALSE /\ pipeClosed = FALSE /\ sigPending = FALSE
    /\ exitCode = -1
    /\ lastLine = << >> /\ emitted = 0 /\ warnings = 0 /\ reported = ""
    /\ reads = << >> /\ lookups = {} /\ fdOpen = FALSE /\ closes = 0
    /\ closedAt = -1 /\ handlerRan = FALSE /\ emittedAtHandler = -1
    /\ uncaught = FALSE /\ helped = FALSE
    /\ offsetHigh = 0 /\ requested = -1 /\ returned = UNDEFINED /\ calls = 0

NextArgs ==
    \/ Main
    \/ Next

SpecArgs == InitArgs /\ [][NextArgs]_vars

\* the arguments are not the documented ones
InvalidArgs ==
    argCount = 0 \/ blockSizeOpt \notin BlockSizes \/ startOffsetOpt < 0

\* C11: with a block size other than 8, 16, 32, 64, a negative start offset
\* or no file argument, the usage text is printed and the program ends with
\* no object constructed and no file stat'ed, opened or read.
C11_InvalidArgsTouchNoFile ==
    InvalidArgs =>
        /\ pc \in {"main", "exited"}
        /\ (pc = "exited" => helped)
        /\ currentOffset = -1 /\ fstat = -1 /\ fd = 0 /\ ~fdOpen
        /\ reads = << >> /\ emitted = 0

\* ------------------------------------------------- offsets past 32 bits
\* An offset of a file larger than 4 GiB is kept on two limbs,
\* offsetHigh * Limb + currentOffset with 0 <= currentOffset < Limb.

Limb == 16 ^ 6

\* the high limb of MAX_32BIT = 0xffffffff (its low limb is Limb - 1)
MAX_32BIT_HIGH == 255

\* number.toString(16) of the number hi * Limb + lo
ToString16Wide(hi, lo) ==
    IF hi = 0 THEN ToString16(lo)
    ELSE ToString16(hi) \o SubstrLast(<<48, 48, 48, 48, 48, 48>> \o ToString16(lo), 6)

\* a conversion that pads to eight digits whatever the number
convertOffsetTotHexaWideShort(hi, lo) ==
    SubstrLast(<<48, 48, 48, 48, 48, 48, 48, 48>> \o ToString16Wide(hi, lo), 8)

\* convertOffsetTotHexa, lines 226-232, of the number hi * Limb + lo
convertOffsetTotHexaWide(hi, lo) ==
    IF hi <= MAX_32BIT_HIGH
    THEN SubstrLast(<<48, 48, 48, 48, 48, 48, 48, 48>> \o ToString16Wide(hi, lo), 8)
    ELSE SubstrLast(<<48, 48, 48, 48, 48, 48, 48, 48, 48, 48, 48, 48, 48, 48, 48, 48>>
                    \o ToString16Wide(hi, lo), 16)

\* number of lines followed in a run past 32 bits
MaxHugeLines == 3

\* printLine, lines 91-110, at an offset past what currentOffset alone holds:
\* the offset column is built and the offset advanced (lines 93-100, 103);
\* the file's content is left out
printLineHuge ==
    /\ pc = "huge"
    /\ emitted < MaxHugeLines
    /\ lastLine' = convertOffsetTotHexaWide(offsetHigh, currentOffset) \o <<32, 32, 32>>
    /\ currentOffset' = (currentOffset + LINE_WIDTH) % Limb
    /\ offsetHigh' = offsetHigh + ((currentOffset + LINE_WIDTH) \div Limb)
    /\ emitted' = emitted + 1
    /\ ConsoleLog
    /\ currentLine' = currentLine + 1
    /\ UNCHANGED <<env, opts, bufferStart, buffer, fd, fstat, maxLine, pc, immediate,
                   pipeClosed, exitCode, warnings, reported, reads, lookups, fdOpen,
                   closes, closedAt, handlerRan, emittedAtHandler, uncaught, helped,
                   requested, returned, calls>>

\* the start offsets <<high limb, low limb>> of the runs past 32 bits: around
\* MAX_32BIT, and near 2^52
HugeStarts ==
    { <<MAX_32BIT_HIGH, Limb - LINE_WIDTH - 1>>,
      <<MAX_32BIT_HIGH, Limb - LINE_WIDTH>>,
      <<MAX_32BIT_HIGH + 1, 5>>,
      <<16 ^ 7, Limb - 3>> }

\* a dump under way in a file larger than 4 GiB, about to print a line
InitHuge ==
    /\ fileKind = "file" /\ fileSize = 0 /\ fileSeed = 0
    /\ isWindows = FALSE /\ argCount = 1
    /\ blockSizeOpt = 8 /\ hexaOpt = TRUE /\ offsetOpt = TRUE
    /\ \E st \in HugeStarts :
          /\ offsetHigh = st[1]
          /\ startOffsetOpt = st[2]
          /\ currentOffset = st[2]
          /\ bufferStart = st[2]
    /\ buffer = << >> /\ fd = 3 /\ fstat = -1 /\ currentLine = 0 /\ maxLine = -1
    /\ pc = "huge"
    /\ immediate = FALSE /\ pipeClosed = FALSE /\ sigPending = FALSE
    /\ exitCode = -1
    /\ lastLine = << >> /\ emitted = 0 /\ warnings = 0 /\ reported = ""
    /\ reads = << >> /\ lookups = {} /\ fdOpen = TRUE /\ closes = 0
    /\ closedAt = -1 /\ handlerRan = FALSE /\ emittedAtHandler = -1
    /\ uncaught = FALSE /\ helped = FALSE
    /\ requested = -1 /\ returned = UNDEFINED /\ calls = 0

InitOffsets == InitDefault \/ InitHuge

NextOffsets ==
    \/ Next
    \/ printLineHuge

SpecOffsets == InitOffsets /\ [][NextOffsets]_vars

\* the start offset after validation
EffectiveStart == IF startOffsetOpt >= fileSize THEN 0 ELSE startOffsetOpt

\* high limb of the start offset of a run past 32 bits
HugeStartHigh == (CHOOSE st \in HugeStarts : st[2] = startOffsetOpt)[1]

RECURSIVE ParseHex(_)
\* the number a text of lowercase hex digits stands for; negative when a
\* character is no lowercase hex digit
ParseHex(s) ==
    IF s = << >> THEN 0
    ELSE IF HexValue(s[Len(s)]) < 0 \/ ParseHex(SubSeq(s, 1, Len(s) - 1)) < 0 THEN -1
    ELSE 16 * ParseHex(SubSeq(s, 1, Len(s) - 1)) + HexValue(s[Len(s)])

\* the last line begins with the offset hi * Limb + lo in w lowercase hex
\* digits, followed by three spaces
OffsetColumnShows(hi, lo, w) ==
    /\ Len(lastLine) >= w + 3
    /\ SubSeq(lastLine, w + 1, w + 3) = <<32, 32, 32>>
    /\ ParseHex(SubSeq(lastLine, 1, w - 6)) = hi
    /\ ParseHex(SubSeq(lastLine, w - 5, w)) = lo

\* the offset the emitted-th line is to carry, as <<high limb, low limb>>
ExpectedOffset ==
    IF pc = "huge"
    THEN << HugeStartHigh + ((startOffsetOpt + LINE_WIDTH * (emitted - 1)) \div Limb),
            (startOffsetOpt + LINE_WIDTH * (emitted - 1)) % Limb >>
    ELSE << 0, EffectiveStart + LINE_WIDTH * (emitted - 1) >>

\* C12: the k-th line carries the offset start + 24 * k, in lowercase hex
\* padded to 8 digits up to 0xffffffff and to 16 digits above, and the column
\* parses back to the offset.
C12_OffsetColumn ==
    (Dumping /\ offsetOpt) =>
        \A off \in {ExpectedOffset} :
            OffsetColumnShows(off[1], off[2],
                              IF off[1] < 256 THEN 8 ELSE 16)

\* lines at 0xffffffff (8 digits) and at the next offset (16 digits)
C12_Witness ==
    /\ pc = "huge" /\ emitted = 3
    /\ startOffsetOpt = Limb - LINE_WIDTH - 1
    /\ lastLine = <<48, 48, 48, 48, 48, 48, 48, 49, 48, 48, 48, 48, 48, 48, 49, 55,
                    32, 32, 32>>

\* ------------------------------------------------- files holding every byte

\* size of a file in which every byte value occurs (with seed 0 or seed 1)
\* and whose last line is padded
GlossSize == 280

InitGloss ==
    /\ fileKind = "file"
    /\ fileSize = GlossSize
    /\ fileSeed \in 0..MaxSeed
    /\ isWindows \in BOOLEAN
    /\ argCount = 1
    /\ blockSizeOpt = 8 /\ hexaOpt = TRUE /\ offsetOpt = TRUE
    /\ startOffsetOpt = 0
    /\ Constructed

SpecGloss == InitGloss /\ [][Next]_vars

\* the byte values the file holds, over the seeds 0 and 1
BytesOfFiles ==
    { (65 + 95 * seed + o + (o \div 251)) % 256 : seed \in 0..1, o \in 0..(GlossSize - 1) }

\* the gloss of a byte value, or of the end-of-file sentinel -1
ClaimedGloss(code) ==
    IF code = -1 THEN 46
    ELSE IF code = 173 THEN 46
    ELSE IF isWindows
         THEN (IF code >= 32 /\ code < 127 THEN code ELSE 46)
         ELSE (IF (code >= 32 /\ code < 127) \/ code > 160 THEN code ELSE 46)

\* the byte at offset o, -1 at or past the end of file
ByteOrSentinel(o) == IF o < fileSize THEN FileByte(o) ELSE -1

\* C13: the gloss of a position is "." at end of file and for 0xAD; on win32
\* the character itself for codes in [32,127) only; elsewhere the character
\* itself for codes in [32,127) and codes above 160; "." otherwise.
C13_GlossOfEveryByte ==
    /\ BytesOfFiles = 0..255
    /\ Dumping =>
         \A j \in 0..(LINE_WIDTH - 1) :
            GlossPart[j + 1] = ClaimedGloss(ByteOrSentinel(LastLineStart + j))

\* the line of the bytes 0xA0 .. 0xB7 on a platform other than win32:
\* 0xA0 and 0xAD are ".", the others stand for themselves
C13_Witness ==
    /\ ~isWindows /\ fileSeed = 1 /\ emitted = 1
    /\ GlossPart = <<46, 161, 162, 163, 164, 165, 166, 167, 168, 169, 170, 171, 172,
                     46, 174, 175, 176, 177, 178, 179, 180, 181, 182, 183>>

\* --------------------------------------------------------------- the columns

\* the hex portion a line at off is to hold
ExpectedHexa(off) == RefHexaFrom(off, 0)

\* C14: a line is the offset column and three spaces if and only if
\* showOffset, then the hex groups with their separators if and only if
\* showHexa, then the 24-character gloss; with both columns off it is the
\* gloss alone; the gloss, the number of lines and the advance of the
\* offset do not depend on the two options.
C14_ColumnsFollowOptions ==
    /\ Dumping =>
         /\ LastLineStart = EffectiveStart + LINE_WIDTH * (emitted - 1)
         /\ lastLine = (IF offsetOpt
                        THEN RefOffsetColumn(LastLineStart) \o <<32, 32, 32>>
                        ELSE << >>)
                       \o (IF hexaOpt THEN ExpectedHexa(LastLineStart) ELSE << >>)
                       \o RefGloss(LastLineStart)
         /\ GlossPart = RefGloss(LastLineStart)
         /\ ((~offsetOpt /\ ~hexaOpt) =>
                (Len(lastLine) = LINE_WIDTH /\ lastLine = RefGloss(LastLineStart)))
    /\ RanToCompletion => emitted = ExpectedLines

\* --no-offset --no-hexa on the 10-byte file: the gloss alone
C14_Witness ==
    /\ ~offsetOpt /\ ~hexaOpt /\ fileSize = 10 /\ fileSeed = 0 /\ startOffsetOpt = 0
    /\ RanToCompletion
    /\ lastLine = <<65, 66, 67, 68, 69, 70, 71, 72, 73, 74,
                    46, 46, 46, 46, 46, 46, 46, 46, 46, 46, 46, 46, 46, 46>>

\* ------------------------------------------------------ a user of the class
\* The methods of HexaFile called by code other than main: openFile, then
\* readByteFromFile at any offsets and cleanup any number of times.

\* number of calls made after openFile
MaxCalls == 3

\* cleanup(), lines 82-86; closeSync of a descriptor already closed throws
CallCleanup ==
    /\ pc \in {"catch", "print"}
    /\ calls < MaxCalls
    /\ calls' = calls + 1
    /\ IF fd # 0
       THEN /\ closes' = closes + 1
            /\ IF fdOpen
               THEN fdOpen' = FALSE /\ UNCHANGED reported
               ELSE reported' = "EBADF" /\ UNCHANGED fdOpen
       ELSE UNCHANGED <<closes, fdOpen, reported>>
    /\ UNCHANGED <<env, opts, obj, proc, lastLine, emitted, warnings, reads, lookups,
                   closedAt, handlerRan, emittedAtHandler, uncaught, helped,
                   offsetHigh, requested, returned>>

\* readByteFromFile(o), lines 172-180, for an offset o of the file
CallReadByteFromFile ==
    /\ pc = "print"
    /\ fdOpen
    /\ calls < MaxCalls
    /\ calls' = calls + 1
    /\ \E o \in 0..(fstat - 1) :
          \E s \in {readByteFromFile(Self(TRUE), o)} :
             /\ requested' = o
             /\ returned' = readByteFromFileValue(s, o)
             /\ bufferStart' = s.bufferStart
             /\ buffer' = s.buffer
             /\ reads' = s.reads
             /\ lookups' = s.lookups
    /\ UNCHANGED <<env, opts, currentOffset, fd, fstat, currentLine, maxLine, proc,
                   lastLine, emitted, warnings, reported, fdOpen, closes, closedAt,
                   handlerRan, emittedAtHandler, uncaught, helped, offsetHigh>>

NextApi ==
    \/ StatFile
    \/ CheckStartOffset
    \/ OpenSync
    \/ ReadFirstChunk
    \/ CallCleanup
    \/ CallReadByteFromFile

SpecApi == InitDefault /\ [][NextApi]_vars

\* C15: however many times cleanup is called, before or after a successful
\* open, closeSync is called at most once and no call fails.
C15_CleanupClosesOnce ==
    closes <= 1 /\ reported # "EBADF"

\* C16: a readByteFromFile call at an offset of the file, in any order of
\* calls, leaves the offset inside the window and returns the file's byte.
C16_AnyOrderServed ==
    requested >= 0 =>
        /\ bufferStart <= requested
        /\ requested < bufferStart + BUFFER_LENGTH
        /\ returned = FileByte(requested)

\* ------------------------------------------------------ the sliding window

\* C17: every buffer lookup of readByteFromFile is made at an offset o below
\* the file size with bufferStart <= o < bufferStart + BUFFER_LENGTH, in the
\* window of a read that was made and that loaded the byte at o; the window
\* of the object is that of the most recent read.
C17_LookupsInsideWindow ==
    /\ \A l \in lookups :
          /\ l[2] <= l[1]
          /\ l[1] < l[2] + BUFFER_LENGTH
          /\ l[1] < fileSize
          /\ l[1] - l[2] < BytesRead(l[2])
          /\ \E i \in 1..Len(reads) :
                /\ reads[i] = l[2]
                /\ (i < Len(reads) => l[1] < reads[Len(reads)])
    /\ (reads # << >> => bufferStart = reads[Len(reads)])

\* a start offset past the end was reset to 0, and a line was served from
\* the first window and from the window read next
C17_Witness ==
    /\ startOffsetOpt >= fileSize /\ Dumping /\ ~uncaught
    /\ reads = <<0, BUFFER_LENGTH>>
    /\ \E l \in lookups : l = <<BUFFER_LENGTH - 1, 0>>
    /\ \E l \in lookups : l = <<BUFFER_LENGTH, BUFFER_LENGTH>>

\* number of windows of BUFFER_LENGTH bytes from the start offset to the end
\* of file
WindowsToRead ==
    (fileSize - EffectiveStart + BUFFER_LENGTH - 1) \div BUFFER_LENGTH

\* C18: the reads are made at the start offset s, s + BUFFER_LENGTH,
\* s + 2 * BUFFER_LENGTH, ..., each once and in this order, all below the file
\* size; a dump that ran to its end has read every such window.
C18_ReadsTileTheFile ==
    /\ \A i \in 1..Len(reads) :
          /\ reads[i] = EffectiveStart + (i - 1) * BUFFER_LENGTH
          /\ reads[i] < fileSize
    /\ Len(reads) <= WindowsToRead
    /\ (pc = "exited" /\ Dumping /\ ~uncaught) => Len(reads) = WindowsToRead

\* a dump from the middle of the file has read its second window
C18_Witness ==
    /\ startOffsetOpt = BigStart /\ Dumping /\ ~uncaught
    /\ reads = <<BigStart, BigStart + BUFFER_LENGTH>>
    /\ WindowsToRead = 3

\* C19: when the read of a refill fails while line k is rendered, the process
\* ends with the lines 0 .. k - 1 emitted as without the failure, line k not
\* emitted, and nothing scheduled.
C19_ReadFailureTruncates ==
    uncaught =>
         /\ lastLine = RefLine(EffectiveStart + LINE_WIDTH * (emitted - 1))
         /\ pc = "exited" /\ ~immediate
         /\ Len(reads) >= 2
         /\ currentOffset = EffectiveStart + LINE_WIDTH * emitted
         /\ currentOffset <= reads[Len(reads)]
         /\ reads[Len(reads)] < currentOffset + LINE_WIDTH
         /\ currentLine = emitted /\ emitted < maxLine

\* the first refill of a dump from offset BigStart failed
C19_Witness ==
    /\ uncaught /\ pc = "exited" /\ startOffsetOpt = BigStart
    /\ reads = <<BigStart, BigStart + BUFFER_LENGTH>>
    /\ emitted = BUFFER_LENGTH \div LINE_WIDTH

====
